---- MODULE Spec2Model ----
(***************************************************************************)
(* md-server: the WebSocket relay of server.ts / claude.ts (admission,     *)
(* auth handshake, turn relay) and the access policy of the document       *)
(* routes, as state machines.                                              *)
(*                                                                         *)
(* JavaScript strings whose bytes matter (WS_TOKEN, the token of an auth   *)
(* message, access tokens) are sequences of UTF-16 code units; opaque      *)
(* strings (origins, session ids, slugs) are TLA+ strings.                 *)
(***************************************************************************)
EXTENDS Integers, Sequences, FiniteSets, TLC

VARIABLES
    WS_TOKEN,        \* process.env.WS_TOKEN (server.ts:10), fixed at start
    ALLOWED_ORIGIN,  \* process.env.ALLOWED_ORIGIN (server.ts:11), fixed at start
    activeWsCount,   \* server.ts:481
    conn,            \* per connection: socket state and ws.data (WSData)
    sent,            \* per connection: the frames passed to ws.sendText, in order
    turns,           \* per connection: the chat() iterations started on it
    nMsgs,           \* inbound messages delivered so far
    nUp,             \* upstream messages consumed so far
    acc,             \* one access decision: its inputs and its result
    http             \* one request for a document route and its Response

vars == <<WS_TOKEN, ALLOWED_ORIGIN, activeWsCount, conn, sent, turns, nMsgs, nUp, acc, http>>

---------------------------------------------------------------------------
\* Bounds of the model

MaxConns == 2   \* connections admitted over a run
MaxMsgs == 3    \* inbound WebSocket messages over a run
MaxUp == 2      \* upstream SDK messages over a run

ConnIds == 1..MaxConns

---------------------------------------------------------------------------
\* JavaScript values

\* the value undefined / a missing header, where a TLA+ string is expected
Undefined == "<undefined>"
\* the value undefined, where a code-unit string is expected
UndefStr == << -1 >>

\* JavaScript truthiness of an optional opaque string
Truthy(s) == s # Undefined /\ s # ""
\* JavaScript truthiness of an optional code-unit string
TruthyStr(s) == s # UndefStr /\ s # <<>>

IsHighSurrogate(u) == u >= 55296 /\ u <= 56319
IsLowSurrogate(u) == u >= 56320 /\ u <= 57343

\* the UTF-8 bytes of one code point
Utf8OfCodePoint(cp) ==
    IF cp < 128 THEN <<cp>>
    ELSE IF cp < 2048 THEN <<192 + (cp \div 64), 128 + (cp % 64)>>
    ELSE IF cp < 65536
         THEN <<224 + (cp \div 4096), 128 + ((cp \div 64) % 64), 128 + (cp % 64)>>
    ELSE <<240 + (cp \div 262144), 128 + ((cp \div 4096) % 64),
           128 + ((cp \div 64) % 64), 128 + (cp % 64)>>

\* Buffer.from(string): UTF-8 encoding of a UTF-16 string; a surrogate pair is
\* one code point, an unpaired surrogate is encoded as U+FFFD (EF BF BD)
RECURSIVE BufferFrom(_)
BufferFrom(s) ==
    IF s = <<>> THEN <<>>
    ELSE IF IsHighSurrogate(s[1]) /\ Len(s) >= 2 /\ IsLowSurrogate(s[2])
         THEN Utf8OfCodePoint(65536 + (s[1] - 55296) * 1024 + (s[2] - 56320))
                  \o BufferFrom(SubSeq(s, 3, Len(s)))
    ELSE IF IsHighSurrogate(s[1]) \/ IsLowSurrogate(s[1])
         THEN <<239, 191, 189>> \o BufferFrom(Tail(s))
    ELSE Utf8OfCodePoint(s[1]) \o BufferFrom(Tail(s))

\* crypto.timingSafeEqual on two buffers of equal length
timingSafeEqual(a, b) == \A i \in 1..Len(a) : a[i] = b[i]

checkToken(input) ==
    IF ~TruthyStr(WS_TOKEN) THEN FALSE
    ELSE LET a == BufferFrom(input)
             b == BufferFrom(WS_TOKEN)
         IN  IF Len(a) # Len(b) THEN FALSE ELSE timingSafeEqual(a, b)

---------------------------------------------------------------------------
\* Inputs

\* the secret of the runs that have one: "a" followed by U+FFFD
Secret == <<97, 65533>>
\* the values of WS_TOKEN: unset, empty, set
EnvTokens == {UndefStr, <<>>, Secret}
EnvOrigins == {Undefined, "https://lab"}

\* the Origin header of an upgrade request (Undefined: no header)
Origins == {Undefined, "", "https://lab", "https://evil"}
\* a request for /ws: its Origin header and whether it is a WebSocket handshake
WsRequests == [origin : Origins, handshake : BOOLEAN]

\* token strings a client may send: the secret, the empty string, a proper
\* prefix, a permutation, a longer string, one of the same length in code
\* units and of other bytes, and two with an unpaired surrogate
MsgTokens ==
    {Secret, <<>>, <<97>>, <<65533, 97>>, <<97, 65533, 97>>, <<97, 233>>,
     <<97, 55296>>, <<55296, 97>>}

\* a JSON value where only its type and, for a string, its content matter
JsString(s) == [typeof |-> "string", str |-> s]
JsNumber == [typeof |-> "number", str |-> <<>>]
JsUndefined == [typeof |-> "undefined", str |-> <<>>]

\* an inbound text frame, by what JSON.parse makes of it: "throws" (not JSON:
\* a plain prompt), "null", "number" (a JSON scalar), or an object with its
\* type and token members
PlainText == [json |-> "throws", type |-> Undefined, token |-> JsUndefined]
Messages ==
    {PlainText,
     [json |-> "null", type |-> Undefined, token |-> JsUndefined],
     [json |-> "number", type |-> Undefined, token |-> JsUndefined]}
    \cup [json : {"object"}, type : {"auth"}, token : {JsString(t) : t \in MsgTokens}]
    \cup [json : {"object"}, type : {"auth"}, token : {JsNumber, JsUndefined}]
    \cup [json : {"object"}, type : {"prompt", Undefined}, token : {JsString(Secret)}]

\* session ids the upstream hands out (never empty)
SessionIds == {"s1", "s2"}

\* the content blocks of an assistant message
TextBlock == [type |-> "text", name |-> ""]
ToolUse(n) == [type |-> "tool_use", name |-> n]

\* SDKMessage values, reduced to the members project() reads
\* (etype: msg.event.type; dtype: msg.event.delta.type, "" when the event has
\* no delta member; text: msg.event.delta.text)
StreamEvent(et, dt, tx) ==
    [type |-> "stream_event", etype |-> et, dtype |-> dt, text |-> tx,
     content |-> <<>>, subtype |-> "", session_id |-> "", errors |-> <<>>]
Assistant(blocks) ==
    [type |-> "assistant", etype |-> "", dtype |-> "", text |-> "",
     content |-> blocks, subtype |-> "", session_id |-> "", errors |-> <<>>]
Result(st, sid, errs) ==
    [type |-> "result", etype |-> "", dtype |-> "", text |-> "",
     content |-> <<>>, subtype |-> st, session_id |-> sid, errors |-> errs]
SystemMsg ==
    [type |-> "system", etype |-> "", dtype |-> "", text |-> "",
     content |-> <<>>, subtype |-> "init", session_id |-> "", errors |-> <<>>]

SDKMessages ==
    {StreamEvent("content_block_delta", "text_delta", "x"),
     StreamEvent("content_block_delta", "text_delta", "y"),
     StreamEvent("content_block_delta", "input_json_delta", ""),
     StreamEvent("message_start", "", ""),
     Assistant(<<TextBlock>>),
     Assistant(<<ToolUse("Read")>>),
     Assistant(<<ToolUse("Bash"), TextBlock, ToolUse("Read")>>),
     SystemMsg,
     Result("error_max_turns", "s1", <<>>),
     Result("error_during_execution", "s1", <<"boom">>)}
    \cup {Result("success", s, <<>>) : s \in SessionIds}

\* the SDK messages the relayed turns draw from: one of each kind project()
\* tells apart
UpstreamMessages ==
    {StreamEvent("content_block_delta", "text_delta", "x"),
     StreamEvent("message_start", "", ""),
     Assistant(<<ToolUse("Bash"), TextBlock, ToolUse("Read")>>),
     Result("error_max_turns", "s1", <<>>)}
    \cup {Result("success", s, <<>>) : s \in SessionIds}

---------------------------------------------------------------------------
\* ChatEvent (protocol.ts); cost, turns and the tool input are passed through
\* unread and are left out

AuthOk == [type |-> "auth-ok", delta |-> "", name |-> "", session_id |-> "",
           message |-> "", recoverable |-> FALSE]
TextDelta(d) == [type |-> "text-delta", delta |-> d, name |-> "", session_id |-> "",
                 message |-> "", recoverable |-> FALSE]
ToolUseEvent(n) == [type |-> "tool-use", delta |-> "", name |-> n, session_id |-> "",
                    message |-> "", recoverable |-> FALSE]
Done(sid) == [type |-> "done", delta |-> "", name |-> "", session_id |-> sid,
              message |-> "", recoverable |-> FALSE]
ErrorEvent(m, r) == [type |-> "error", delta |-> "", name |-> "", session_id |-> "",
                     message |-> m, recoverable |-> r]

\* the message of an exception thrown by the upstream iteration
ThrownMessage == "upstream failed"

IsToolUse(block) == block.type = "tool_use"

\* a mutant of project: the tool invocations of an assistant message are
\* yielded last to first
projectReversed(msg) ==
    IF msg.type = "stream_event"
    THEN IF msg.etype = "content_block_delta" /\ msg.dtype # "" /\ msg.dtype = "text_delta"
         THEN <<TextDelta(msg.text)>>
         ELSE <<>>
    ELSE IF msg.type = "assistant"
    THEN LET tools == SelectSeq(msg.content, IsToolUse)
         IN  [i \in 1..Len(tools) |-> ToolUseEvent(tools[Len(tools) + 1 - i].name)]
    ELSE IF msg.type = "result"
    THEN IF msg.subtype = "success"
         THEN <<Done(msg.session_id)>>
         ELSE <<ErrorEvent(IF Len(msg.errors) > 0 THEN msg.errors[1] ELSE msg.subtype, FALSE)>>
    ELSE <<>>

\* project(msg), claude.ts: the events one SDK message yields, in order
project(msg) ==
    IF msg.type = "stream_event"
    THEN IF msg.etype = "content_block_delta" /\ msg.dtype # "" /\ msg.dtype = "text_delta"
         THEN <<TextDelta(msg.text)>>
         ELSE <<>>
    ELSE IF msg.type = "assistant"
    THEN LET tools == SelectSeq(msg.content, IsToolUse)
         IN  [i \in 1..Len(tools) |-> ToolUseEvent(tools[i].name)]
    ELSE IF msg.type = "result"
    THEN IF msg.subtype = "success"
         THEN <<Done(msg.session_id)>>
         ELSE <<ErrorEvent(IF Len(msg.errors) > 0 THEN msg.errors[1] ELSE msg.subtype, FALSE)>>
    ELSE <<>>

\* a mutant of resumeOption: the session id is not passed on
resumeOptionDropped(sessionId) == Undefined

\* chat(): the resume option passed to query(), Undefined when it is left out
resumeOption(sessionId) == IF Truthy(sessionId) THEN sessionId ELSE Undefined

---------------------------------------------------------------------------
\* The access policy of the document routes

\* the value null, where a code-unit string is expected
NullStr == << -2 >>

\* code-unit strings of the access tokens and Authorization headers
TokA == <<97>>
TokAB == <<97, 98>>
TokABA == <<97, 98, 97>>
TokB == <<98>>
BearerUnits == <<98, 101, 97, 114, 101, 114>>

ToLower(u) == IF u >= 65 /\ u <= 90 THEN u + 32 ELSE u
IsSpace(u) == u \in {9, 10, 11, 12, 13, 32}

RECURSIVE DropSpaces(_)
DropSpaces(s) == IF s # <<>> /\ IsSpace(Head(s)) THEN DropSpaces(Tail(s)) ELSE s

\* header.replace(/^Bearer\s+/i, ""): "Bearer" in any case and the white space
\* after it are cut off the front when at least one white space follows
StripBearer(h) ==
    IF /\ Len(h) >= 7
       /\ [i \in 1..6 |-> ToLower(h[i])] = BearerUnits
       /\ IsSpace(h[7])
    THEN DropSpaces(SubSeq(h, 7, Len(h)))
    ELSE h

\* getToken(req, url): q is the query parameter t and authorization the
\* header, NullStr when absent
getToken(q, authorization) ==
    IF q # NullStr /\ q # <<>> THEN q
    ELSE IF authorization # NullStr /\ StripBearer(authorization) # <<>>
         THEN StripBearer(authorization)
    ELSE NullStr

\* rules is the object JSON.parse returned: a function from its own keys to
\* token lists.  These names are found on every object through
\* Object.prototype, where they hold functions (no arrays).
ObjectPrototypeKeys ==
    {"constructor", "toString", "valueOf", "hasOwnProperty", "isPrototypeOf",
     "propertyIsEnumerable", "toLocaleString", "__proto__"}

\* slug in rules
HasProperty(rules, slug) == slug \in DOMAIN rules \/ slug \in ObjectPrototypeKeys

\* rules[slug].includes(token) for an own key of rules
Includes(list, token) == \E i \in 1..Len(list) : list[i] = token

\* a mutant of canAccess: a token passes when a listed token starts with it
canAccessPrefix(slug, token, rules) ==
    IF ~HasProperty(rules, slug) THEN "true"
    ELSE IF token = NullStr THEN "false"
    ELSE IF slug \notin DOMAIN rules THEN "TypeError"
    ELSE IF \E i \in 1..Len(rules[slug]) :
               /\ Len(token) <= Len(rules[slug][i])
               /\ SubSeq(rules[slug][i], 1, Len(token)) = token
         THEN "true"
    ELSE "false"

\* canAccess(slug, token, rules): "true", "false", or "TypeError" when
\* rules[slug] is an inherited member, which has no includes method
canAccess(slug, token, rules) ==
    IF ~HasProperty(rules, slug) THEN "true"
    ELSE IF token = NullStr THEN "false"
    ELSE IF slug \notin DOMAIN rules THEN "TypeError"
    ELSE IF Includes(rules[slug], token) THEN "true"
    ELSE "false"

\* the rules, slugs and request tokens of the access decisions
EmptyRules == [k \in {} |-> <<>>]
RulesSet ==
    {EmptyRules,
     [k \in {"paper"} |-> <<TokAB>>],
     [k \in {"paper"} |-> <<TokB, TokAB>>],
     [k \in {"paper"} |-> <<>>],
     [k \in {"paper", "constructor"} |-> IF k = "paper" THEN <<TokAB, TokABA>> ELSE <<TokA>>]}
Slugs == {"paper", "notes", "constructor"}
QueryTokens == {NullStr, <<>>, TokA, TokAB, TokABA}
\* no header, "Bearer ab", "bEARER \t b", "ab", "Bearer" alone
AuthorizationHeaders ==
    {NullStr,
     <<66, 101, 97, 114, 101, 114, 32>> \o TokAB,
     <<98, 69, 65, 82, 69, 82, 32, 9>> \o TokB,
     TokAB,
     <<66, 101, 97, 114, 101, 114>>}

\* no access decision in progress
NoAcc ==
    [pc |-> "idle", slug |-> "", q |-> NullStr, authorization |-> NullStr,
     rules |-> EmptyRules, token |-> NullStr, result |-> ""]

---------------------------------------------------------------------------
\* The document routes of handler(): index, assets, document pages

\* the names a request path holds after its leading "/", and the names of
\* docs/.  A name is known to canAccess and the rules by the string itself;
\* CodeUnits gives its code units, on which the string methods work.
\* (47 is "/", 46 is ".", 0 is the null character)
Names ==
    {"", "paper", "notes", "constructor", "out", "sib", "gone", "dir", "nope",
     "memo", "a/b", "p\\0", "fig.png", "out.PNG", "sib.svg", "a/b.png", "notes.txt"}

CodeUnits(name) ==
    CASE name = "" -> <<>>
      [] name = "paper" -> <<112, 97, 112, 101, 114>>
      [] name = "notes" -> <<110, 111, 116, 101, 115>>
      [] name = "constructor" -> <<99, 111, 110, 115, 116, 114, 117, 99, 116, 111, 114>>
      [] name = "out" -> <<111, 117, 116>>
      [] name = "sib" -> <<115, 105, 98>>
      [] name = "gone" -> <<103, 111, 110, 101>>
      [] name = "dir" -> <<100, 105, 114>>
      [] name = "nope" -> <<110, 111, 112, 101>>
      [] name = "memo" -> <<109, 101, 109, 111>>
      [] name = "a/b" -> <<97, 47, 98>>
      [] name = "p\\0" -> <<112, 0>>
      [] name = "fig.png" -> <<102, 105, 103, 46, 112, 110, 103>>
      [] name = "out.PNG" -> <<111, 117, 116, 46, 80, 78, 71>>
      [] name = "sib.svg" -> <<115, 105, 98, 46, 115, 118, 103>>
      [] name = "a/b.png" -> <<97, 47, 98, 46, 112, 110, 103>>
      [] name = "notes.txt" -> <<110, 111, 116, 101, 115, 46, 116, 120, 116>>

\* the name with the code units units
NameOf(units) == CHOOSE name \in Names : CodeUnits(name) = units

Slash == <<47>>
Md == <<46, 109, 100>>

\* s.includes(u) for a single code unit u
IncludesUnit(s, u) == \E i \in 1..Len(s) : s[i] = u

\* s.startsWith(prefix)
StartsWith(s, prefix) ==
    Len(s) >= Len(prefix) /\ SubSeq(s, 1, Len(prefix)) = prefix

\* s.endsWith(suffix)
EndsWith(s, suffix) ==
    Len(s) >= Len(suffix) /\ SubSeq(s, Len(s) - Len(suffix) + 1, Len(s)) = suffix

\* s.lastIndexOf("."), counted from 1; 0 when there is none
LastDot(s) ==
    IF IncludesUnit(s, 46)
    THEN CHOOSE i \in 1..Len(s) : s[i] = 46 /\ \A j \in (i + 1)..Len(s) : s[j] # 46
    ELSE 0

\* assetName.includes(".") ? assetName.slice(lastIndexOf(".")).toLowerCase() : ""
ExtOf(assetName) ==
    IF IncludesUnit(assetName, 46)
    THEN [i \in 1..(Len(assetName) - LastDot(assetName) + 1) |->
              ToLower(assetName[LastDot(assetName) + i - 1])]
    ELSE <<>>

\* the keys of ASSET_EXT: .png .jpg .jpeg .gif .svg .webp.  No name inherited
\* from Object.prototype starts with ".", and ext is empty or starts with
\* ".", so "ext in ASSET_EXT" finds own keys only.
ASSET_EXT ==
    {<<46, 112, 110, 103>>, <<46, 106, 112, 103>>, <<46, 106, 112, 101, 103>>,
     <<46, 103, 105, 102>>, <<46, 115, 118, 103>>, <<46, 119, 101, 98, 112>>}

\* the condition of the asset branch
IsAssetRequest(assetName) ==
    /\ ExtOf(assetName) \in ASSET_EXT
    /\ ~IncludesUnit(assetName, 47)
    /\ ~IncludesUnit(assetName, 0)

\* paths, as code units
DOCS_DIR == <<47, 100, 111, 99, 115>>
DocsOther == DOCS_DIR \o <<45, 111, 116, 104, 101, 114>>
Etc == <<47, 101, 116, 99>>

\* the outcome of realpath on a path that does not resolve (ENOENT, EACCES,
\* ELOOP): the call throws
Enoent == <<>>

\* one name of docs/ as the file system answers for it: real is what
\* realpath(join(DOCS_DIR, name)) returns, kind and data what stat and
\* readFile find at real, mtime the st.mtime
Plain(name, data, mtime) ==
    [name |-> name, real |-> DOCS_DIR \o Slash \o name, kind |-> "file",
     data |-> data, mtime |-> mtime]
Link(name, real, data, mtime) ==
    [name |-> name, real |-> real, kind |-> "file", data |-> data, mtime |-> mtime]
Broken(name) ==
    [name |-> name, real |-> Enoent, kind |-> "none", data |-> "", mtime |-> 0]
Directory(name, mtime) ==
    [name |-> name, real |-> DOCS_DIR \o Slash \o name, kind |-> "dir",
     data |-> "", mtime |-> mtime]

\* docs/ in readdir order: regular files, links into docs/, out of it and
\* into its sibling /docs-other, a dangling link, a directory named like a
\* document, images
DocsEntries ==
    <<Plain(CodeUnits("notes") \o Md, "NOTES", 2),
      Plain(CodeUnits("fig.png"), "FIG", 1),
      Link(CodeUnits("out") \o Md, Etc \o Slash \o CodeUnits("out") \o Md, "OUT", 5),
      Plain(CodeUnits("paper") \o Md, "PAPER", 3),
      Link(CodeUnits("sib") \o Md, DocsOther \o Slash \o CodeUnits("sib") \o Md, "SIB", 4),
      Broken(CodeUnits("gone") \o Md),
      Directory(CodeUnits("dir") \o Md, 6),
      Plain(CodeUnits("constructor") \o Md, "CONSTRUCTOR", 2),
      Link(CodeUnits("out.PNG"), Etc \o Slash \o CodeUnits("out.PNG"), "OUTPNG", 1),
      Link(CodeUnits("sib.svg"), DocsOther \o Slash \o CodeUnits("sib.svg"), "SIBSVG", 1),
      Plain(CodeUnits("memo") \o Md, "MEMO", 3)>>

\* the file systems of the requests: docs/ as above, and docs/ missing
FileSystems ==
    {[docsReal |-> DOCS_DIR, entries |-> DocsEntries],
     [docsReal |-> Enoent, entries |-> <<>>]}

\* the entry of docs/ named name: what the file system holds at
\* join(DOCS_DIR, name); a name docs/ does not hold resolves like a dangling
\* link
EntryOf(fs, name) ==
    IF \E i \in 1..Len(fs.entries) : fs.entries[i].name = name
    THEN fs.entries[CHOOSE i \in 1..Len(fs.entries) : fs.entries[i].name = name]
    ELSE Broken(name)

\* realpath(join(DOCS_DIR, name)), Enoent when it throws
realpath(fs, name) == IF fs.docsReal = Enoent THEN Enoent ELSE EntryOf(fs, name).real

\* a mutant of readConfined: the root is compared without the "/" after it
readConfinedNoSlash(fs, name) ==
    LET resolved == realpath(fs, name)
        docsReal == fs.docsReal
    IN  IF resolved = Enoent THEN [ok |-> FALSE, data |-> "", ops |-> <<"realpath">>]
        ELSE IF docsReal = Enoent
             THEN [ok |-> FALSE, data |-> "", ops |-> <<"realpath", "realpath">>]
        ELSE IF ~StartsWith(resolved, docsReal)
             THEN [ok |-> FALSE, data |-> "", ops |-> <<"realpath", "realpath">>]
        ELSE IF EntryOf(fs, name).kind # "file"
             THEN [ok |-> FALSE, data |-> "", ops |-> <<"realpath", "realpath", "readFile">>]
        ELSE [ok |-> TRUE, data |-> EntryOf(fs, name).data,
              ops |-> <<"realpath", "realpath", "readFile">>]

\* the try block of the asset and the document branch: realpath of the
\* candidate, realpath of DOCS_DIR, the prefix test, readFile.  ok is false
\* when anything in it throws (readFile throws on a directory); ops are the
\* file system calls made.
readConfined(fs, name) ==
    LET resolved == realpath(fs, name)
        docsReal == fs.docsReal
    IN  IF resolved = Enoent THEN [ok |-> FALSE, data |-> "", ops |-> <<"realpath">>]
        ELSE IF docsReal = Enoent
             THEN [ok |-> FALSE, data |-> "", ops |-> <<"realpath", "realpath">>]
        ELSE IF ~StartsWith(resolved, docsReal \o Slash)
             THEN [ok |-> FALSE, data |-> "", ops |-> <<"realpath", "realpath">>]
        ELSE IF EntryOf(fs, name).kind # "file"
             THEN [ok |-> FALSE, data |-> "", ops |-> <<"realpath", "realpath", "readFile">>]
        ELSE [ok |-> TRUE, data |-> EntryOf(fs, name).data,
              ops |-> <<"realpath", "realpath", "readFile">>]

\* .access.json as loadAccess finds it: missing, not JSON, or an object
AccessFiles ==
    {[kind |-> "ENOENT", rules |-> EmptyRules],
     [kind |-> "invalid", rules |-> EmptyRules],
     [kind |-> "object", rules |-> EmptyRules],
     [kind |-> "object", rules |-> [k \in {"paper"} |-> <<TokAB>>]],
     [kind |-> "object", rules |-> [k \in {"out", "fig.png"} |-> <<TokAB>>]],
     [kind |-> "object",
      rules |-> [k \in {"paper", "constructor"} |->
                     IF k = "paper" THEN <<TokAB, TokABA>> ELSE <<TokA>>]]}

\* loadAccess(): the parsed object, {} when readFile or JSON.parse throws
loadAccess(file) == IF file.kind = "object" THEN file.rules ELSE EmptyRules

\* a Response: body holds the bytes or the rendered text of one file, list
\* the slugs of the index page in page order, ops the file system calls the
\* handler made for the request
Response(status, body, list, ops) ==
    [status |-> status, body |-> body, list |-> list, ops |-> ops]
NoResponse == Response(0, "", <<>>, <<>>)

\* the for loop of listDocs over readdir's entries from i on: the entries
\* that end in ".md", resolve under docsReal and are regular files
RECURSIVE docsFrom(_, _)
docsFrom(fs, i) ==
    IF i > Len(fs.entries) THEN <<>>
    ELSE LET entry == fs.entries[i]
             resolved == realpath(fs, entry.name)
             keep == /\ EndsWith(entry.name, Md)
                     /\ resolved # Enoent
                     /\ StartsWith(resolved, fs.docsReal \o Slash)
                     /\ entry.kind = "file"
         IN  (IF keep
              THEN <<[slug |-> SubSeq(entry.name, 1, Len(entry.name) - Len(Md)),
                      mtime |-> entry.mtime]>>
              ELSE <<>>) \o docsFrom(fs, i + 1)

\* a mutant of sortByMtime: oldest first
RECURSIVE sortByMtimeAscending(_)
sortByMtimeAscending(docs) ==
    IF docs = <<>> THEN <<>>
    ELSE LET NotOlder(d) == d.mtime >= Head(docs).mtime
             Older(d) == d.mtime < Head(docs).mtime
             rest == sortByMtimeAscending(Tail(docs))
         IN  SelectSeq(rest, Older) \o <<Head(docs)>> \o SelectSeq(rest, NotOlder)

\* docs.sort((a, b) => b.mtime - a.mtime): newest first, and Array.sort keeps
\* the order of equal elements
RECURSIVE sortByMtime(_)
sortByMtime(docs) ==
    IF docs = <<>> THEN <<>>
    ELSE LET NotNewer(d) == d.mtime <= Head(docs).mtime
             Newer(d) == d.mtime > Head(docs).mtime
             rest == sortByMtime(Tail(docs))
         IN  SelectSeq(rest, Newer) \o <<Head(docs)>> \o SelectSeq(rest, NotNewer)

\* listDocs(): [] when readdir throws
listDocs(fs) == IF fs.docsReal = Enoent THEN <<>> ELSE sortByMtime(docsFrom(fs, 1))

\* the index branch: the documents canAccess lets through, in listDocs'
\* order; a TypeError in the filter leaves the handler as a 500
indexResponse(fs, token, rules) ==
    LET docs == listDocs(fs)
        Verdict(d) == canAccess(NameOf(d.slug), token, rules)
        Allowed(d) == Verdict(d) = "true"
        shown == SelectSeq(docs, Allowed)
    IN  IF \E i \in 1..Len(docs) : Verdict(docs[i]) = "TypeError"
        THEN Response(500, "", <<>>, <<"readFile", "readdir">>)
        ELSE Response(200, "", [i \in 1..Len(shown) |-> NameOf(shown[i].slug)],
                      <<"readFile", "readdir">>)

\* the asset branch
assetResponse(fs, assetName) ==
    LET r == readConfined(fs, assetName)
    IN  IF r.ok THEN Response(200, r.data, <<>>, <<"readFile">> \o r.ops)
        ELSE Response(404, "", <<>>, <<"readFile">> \o r.ops)

\* the document branch
documentResponse(fs, slug, token, rules) ==
    IF IncludesUnit(slug, 47) \/ IncludesUnit(slug, 0)
    THEN Response(404, "", <<>>, <<"readFile">>)
    ELSE IF canAccess(NameOf(slug), token, rules) = "TypeError"
    THEN Response(500, "", <<>>, <<"readFile">>)
    ELSE IF canAccess(NameOf(slug), token, rules) = "false"
    THEN Response(401, "", <<>>, <<"readFile">>)
    ELSE LET r == readConfined(fs, slug \o Md)
         IN  IF r.ok THEN Response(200, r.data, <<>>, <<"readFile">> \o r.ops)
             ELSE Response(404, "", <<>>, <<"readFile">> \o r.ops)

\* no document request in progress
NoHttp ==
    [pc |-> "idle", name |-> "", q |-> NullStr, authorization |-> NullStr,
     accessFile |-> [kind |-> "ENOENT", rules |-> EmptyRules],
     fs |-> [docsReal |-> Enoent, entries |-> <<>>], resp |-> NoResponse]

DocQueryTokens == {NullStr, TokA, TokAB}
DocAuthorizationHeaders == {NullStr, <<66, 101, 97, 114, 101, 114, 32>> \o TokAB}

---------------------------------------------------------------------------
\* State

\* ws.data as server.upgrade creates it, with the socket's state:
\*   st: "free" (no such connection yet), "upgraded" (admitted by handler, open
\*       callback not yet run), "open", "closing" (ws.close called, close
\*       callback not yet run), "closed"
\*   closeCode: the code the server passed to ws.close, 0 when it has not
\*   nrecv: the number of messages delivered to message()
FreeConn ==
    [st |-> "free", authenticated |-> FALSE, sessionId |-> Undefined,
     closeCode |-> 0, nrecv |-> 0]


IsOpen(c) == conn[c].st \in {"open", "closing"}
NumOpen == Cardinality({c \in ConnIds : IsOpen(c)})
FreeIds == {c \in ConnIds : conn[c].st = "free"}

Init ==
    /\ WS_TOKEN \in EnvTokens
    /\ ALLOWED_ORIGIN \in EnvOrigins
    /\ activeWsCount = 0
    /\ conn = [c \in ConnIds |-> FreeConn]
    /\ sent = [c \in ConnIds |-> <<>>]
    /\ turns = [c \in ConnIds |-> <<>>]
    /\ nMsgs = 0
    /\ nUp = 0
    /\ acc = NoAcc
    /\ http = NoHttp

---------------------------------------------------------------------------
\* handler(), the /ws branch

\* the concurrency limit of the /ws branch
WsCap == 1

\* a mutant of wsStatus: the cap compared with > instead of >=
wsStatusOffByOne(req, count) ==
    IF ~TruthyStr(WS_TOKEN) THEN 503
    ELSE IF Truthy(ALLOWED_ORIGIN) /\ Truthy(req.origin) /\ req.origin # ALLOWED_ORIGIN
         THEN 403
    ELSE IF count > WsCap THEN 429
    ELSE IF ~req.handshake THEN 400
    ELSE 101

\* the status handler() answers a request for /ws with when activeWsCount is
\* count; 101 stands for a successful server.upgrade
wsStatus(req, count) ==
    IF ~TruthyStr(WS_TOKEN) THEN 503
    ELSE IF Truthy(ALLOWED_ORIGIN) /\ Truthy(req.origin) /\ req.origin # ALLOWED_ORIGIN
         THEN 403
    ELSE IF count >= WsCap THEN 429
    ELSE IF ~req.handshake THEN 400
    ELSE 101

Handler(req) ==
    LET status == wsStatus(req, activeWsCount)
        c == IF FreeIds = {} THEN 0 ELSE CHOOSE i \in FreeIds : \A j \in FreeIds : i <= j
    IN  /\ status = 101 => c # 0
        /\ conn' = IF status = 101
                   THEN [conn EXCEPT ![c] = [FreeConn EXCEPT !.st = "upgraded"]]
                   ELSE conn
        /\ UNCHANGED <<WS_TOKEN, ALLOWED_ORIGIN, activeWsCount, sent, turns, nMsgs, nUp, acc, http>>

---------------------------------------------------------------------------
\* websocket.open

Open(c) ==
    /\ conn[c].st = "upgraded"
    /\ activeWsCount' = activeWsCount + 1
    /\ conn' = [conn EXCEPT ![c].st = "open"]
    /\ UNCHANGED <<WS_TOKEN, ALLOWED_ORIGIN, sent, turns, nMsgs, nUp, acc, http>>

---------------------------------------------------------------------------
\* websocket.message

\* a mutant of onMessage: the return after auth-ok is missing, so the auth
\* message goes on to the relay
onMessageFallThrough(authenticated, msg) ==
    IF ~authenticated
    THEN IF /\ msg.json \notin {"throws", "null"}
            /\ msg.type = "auth"
            /\ msg.token.typeof = "string"
            /\ checkToken(msg.token.str)
         THEN [authenticated |-> TRUE, send |-> <<AuthOk>>, close |-> 0, relay |-> TRUE]
         ELSE [authenticated |-> FALSE, send |-> <<>>, close |-> 4401, relay |-> FALSE]
    ELSE [authenticated |-> TRUE, send |-> <<>>, close |-> 0, relay |-> TRUE]

\* a mutant of onMessage: every message is run through the auth branch
onMessageReauth(authenticated, msg) ==
    IF /\ msg.json \notin {"throws", "null"}
       /\ msg.type = "auth"
       /\ msg.token.typeof = "string"
       /\ checkToken(msg.token.str)
    THEN [authenticated |-> TRUE, send |-> <<AuthOk>>, close |-> 0, relay |-> FALSE]
    ELSE [authenticated |-> FALSE, send |-> <<>>, close |-> 4401, relay |-> FALSE]

\* the synchronous part of message(ws, raw): the new ws.data.authenticated, the
\* frames sent, the code passed to ws.close (0: not closed) and whether chat()
\* is called with the text.  JSON.parse throws on text that is not JSON, and
\* msg.type throws on null; both land in the empty catch.
onMessage(authenticated, msg) ==
    IF ~authenticated
    THEN IF /\ msg.json \notin {"throws", "null"}
            /\ msg.type = "auth"
            /\ msg.token.typeof = "string"
            /\ checkToken(msg.token.str)
         THEN [authenticated |-> TRUE, send |-> <<AuthOk>>, close |-> 0, relay |-> FALSE]
         ELSE [authenticated |-> FALSE, send |-> <<>>, close |-> 4401, relay |-> FALSE]
    ELSE [authenticated |-> TRUE, send |-> <<>>, close |-> 0, relay |-> TRUE]

\* the frames evs as ws.sendText records them for turn k of connection c
Frames(c, k, evs) ==
    [i \in 1..Len(evs) |-> [turn |-> k, live |-> conn[c].st = "open", ev |-> evs[i]]]

Message(c, msg) ==
    /\ conn[c].st = "open"
    /\ nMsgs < MaxMsgs
    /\ nMsgs' = nMsgs + 1
    /\ LET out == onMessage(conn[c].authenticated, msg)
       IN  /\ conn' = [conn EXCEPT ![c] =
                         [@ EXCEPT !.authenticated = out.authenticated,
                                   !.st = IF out.close # 0 THEN "closing" ELSE @,
                                   !.closeCode = out.close,
                                   !.nrecv = @ + 1]]
           /\ sent' = [sent EXCEPT ![c] = @ \o Frames(c, 0, out.send)]
           /\ turns' = IF out.relay
                       THEN [turns EXCEPT ![c] =
                               Append(@, [resume |-> resumeOption(conn[c].sessionId),
                                          st |-> "running",
                                          authAtCall |-> conn[c].authenticated,
                                          at |-> Len(sent[c]),
                                          ups |-> <<>>])]
                       ELSE turns
    /\ UNCHANGED <<WS_TOKEN, ALLOWED_ORIGIN, activeWsCount, nUp, acc, http>>

\* the session id ws.data holds after the events evs were forwarded
RECURSIVE sessionAfter(_, _)
sessionAfter(sid, evs) ==
    IF evs = <<>> THEN sid
    ELSE sessionAfter(IF Head(evs).type = "done" THEN Head(evs).session_id ELSE sid,
                      Tail(evs))

\* a mutant of Upstream: the session id of a done is kept on every connection
UpstreamSharedSession(c, k, msg) ==
    /\ k \in 1..Len(turns[c])
    /\ turns[c][k].st = "running"
    /\ nUp < MaxUp
    /\ nUp' = nUp + 1
    /\ sent' = [sent EXCEPT ![c] = @ \o Frames(c, k, project(msg))]
    /\ conn' = [d \in ConnIds |->
                  [conn[d] EXCEPT !.sessionId = sessionAfter(@, project(msg))]]
    /\ turns' = [turns EXCEPT ![c][k].ups = Append(@, msg)]
    /\ UNCHANGED <<WS_TOKEN, ALLOWED_ORIGIN, activeWsCount, nMsgs, acc, http>>

\* one iteration of for await (const msg of q): the upstream yields msg and
\* every event of project(msg) is sent, the session id kept on done; ups is
\* the sequence of messages the loop has taken from the upstream so far
Upstream(c, k, msg) ==
    /\ k \in 1..Len(turns[c])
    /\ turns[c][k].st = "running"
    /\ nUp < MaxUp
    /\ nUp' = nUp + 1
    /\ sent' = [sent EXCEPT ![c] = @ \o Frames(c, k, project(msg))]
    /\ conn' = [conn EXCEPT ![c].sessionId = sessionAfter(@, project(msg))]
    /\ turns' = [turns EXCEPT ![c][k].ups = Append(@, msg)]
    /\ UNCHANGED <<WS_TOKEN, ALLOWED_ORIGIN, activeWsCount, nMsgs, acc, http>>

\* the upstream iterator is exhausted: the loop and the handler return
UpstreamEnd(c, k) ==
    /\ k \in 1..Len(turns[c])
    /\ turns[c][k].st = "running"
    /\ turns' = [turns EXCEPT ![c][k].st = "returned"]
    /\ UNCHANGED <<WS_TOKEN, ALLOWED_ORIGIN, activeWsCount, conn, sent, nMsgs, nUp, acc, http>>

\* the upstream iteration throws: the catch sends an error event
UpstreamThrow(c, k) ==
    /\ k \in 1..Len(turns[c])
    /\ turns[c][k].st = "running"
    /\ turns' = [turns EXCEPT ![c][k].st = "caught"]
    /\ sent' = [sent EXCEPT ![c] = @ \o Frames(c, k, <<ErrorEvent(ThrownMessage, FALSE)>>)]
    /\ UNCHANGED <<WS_TOKEN, ALLOWED_ORIGIN, activeWsCount, conn, nMsgs, nUp, acc, http>>

---------------------------------------------------------------------------
\* websocket.close: the peer went away (st = "open") or the server's own
\* ws.close has completed (st = "closing")

\* a mutant of Close: the counter is left alone when the server closed the
\* connection itself
CloseKeepsCount(c) ==
    /\ conn[c].st \in {"open", "closing"}
    /\ activeWsCount' = IF conn[c].st = "closing" THEN activeWsCount ELSE activeWsCount - 1
    /\ conn' = [conn EXCEPT ![c].st = "closed"]
    /\ UNCHANGED <<WS_TOKEN, ALLOWED_ORIGIN, sent, turns, nMsgs, nUp, acc, http>>

Close(c) ==
    /\ conn[c].st \in {"open", "closing"}
    /\ activeWsCount' = activeWsCount - 1
    /\ conn' = [conn EXCEPT ![c].st = "closed"]
    /\ UNCHANGED <<WS_TOKEN, ALLOWED_ORIGIN, sent, turns, nMsgs, nUp, acc, http>>

Next ==
    \/ \E req \in WsRequests : Handler(req)
    \/ \E c \in ConnIds : Open(c)
    \/ \E c \in ConnIds, msg \in Messages : Message(c, msg)
    \/ \E c \in ConnIds, k \in 1..MaxMsgs, msg \in UpstreamMessages : Upstream(c, k, msg)
    \/ \E c \in ConnIds, k \in 1..MaxMsgs : UpstreamEnd(c, k)
    \/ \E c \in ConnIds, k \in 1..MaxMsgs : UpstreamThrow(c, k)
    \/ \E c \in ConnIds : Close(c)

Spec == Init /\ [][Next]_vars

---------------------------------------------------------------------------
\* handler(), the access decision of a document request: rules loaded, the
\* token taken from the request, canAccess applied

InitAccess ==
    /\ WS_TOKEN = UndefStr
    /\ ALLOWED_ORIGIN = Undefined
    /\ activeWsCount = 0
    /\ conn = [c \in ConnIds |-> FreeConn]
    /\ sent = [c \in ConnIds |-> <<>>]
    /\ turns = [c \in ConnIds |-> <<>>]
    /\ nMsgs = 0
    /\ nUp = 0
    /\ acc \in [pc : {"request"}, slug : Slugs, q : QueryTokens,
                 authorization : AuthorizationHeaders, rules : RulesSet,
                 token : {NullStr}, result : {""}]
    /\ http = NoHttp

GetToken ==
    /\ acc.pc = "request"
    /\ acc' = [acc EXCEPT !.pc = "token", !.token = getToken(acc.q, acc.authorization)]
    /\ UNCHANGED <<WS_TOKEN, ALLOWED_ORIGIN, activeWsCount, conn, sent, turns, nMsgs, nUp, http>>

CanAccess ==
    /\ acc.pc = "token"
    /\ acc' = [acc EXCEPT !.pc = "decided",
                          !.result = canAccess(acc.slug, acc.token, acc.rules)]
    /\ UNCHANGED <<WS_TOKEN, ALLOWED_ORIGIN, activeWsCount, conn, sent, turns, nMsgs, nUp, http>>

NextAccess == GetToken \/ CanAccess

SpecAccess == InitAccess /\ [][NextAccess]_vars

---------------------------------------------------------------------------
\* handler(), the document routes: one action per branch, each the whole
\* handler from loadAccess to the Response

InitDocs ==
    /\ WS_TOKEN = UndefStr
    /\ ALLOWED_ORIGIN = Undefined
    /\ activeWsCount = 0
    /\ conn = [c \in ConnIds |-> FreeConn]
    /\ sent = [c \in ConnIds |-> <<>>]
    /\ turns = [c \in ConnIds |-> <<>>]
    /\ nMsgs = 0
    /\ nUp = 0
    /\ acc = NoAcc
    /\ http \in [pc : {"request"}, name : Names, q : DocQueryTokens,
                  authorization : DocAuthorizationHeaders, accessFile : AccessFiles,
                  fs : FileSystems, resp : {NoResponse}]

\* GET /
Index ==
    /\ http.pc = "request"
    /\ http.name = ""
    /\ http' = [http EXCEPT
                  !.pc = "done",
                  !.resp = indexResponse(http.fs, getToken(http.q, http.authorization),
                                         loadAccess(http.accessFile))]
    /\ UNCHANGED <<WS_TOKEN, ALLOWED_ORIGIN, activeWsCount, conn, sent, turns, nMsgs, nUp, acc>>

\* GET /name for a name with an image extension
Asset ==
    /\ http.pc = "request"
    /\ http.name # ""
    /\ IsAssetRequest(CodeUnits(http.name))
    /\ http' = [http EXCEPT !.pc = "done",
                            !.resp = assetResponse(http.fs, CodeUnits(http.name))]
    /\ UNCHANGED <<WS_TOKEN, ALLOWED_ORIGIN, activeWsCount, conn, sent, turns, nMsgs, nUp, acc>>

\* GET /slug for every other name
Document ==
    /\ http.pc = "request"
    /\ http.name # ""
    /\ ~IsAssetRequest(CodeUnits(http.name))
    /\ http' = [http EXCEPT
                  !.pc = "done",
                  !.resp = documentResponse(http.fs, CodeUnits(http.name),
                                            getToken(http.q, http.authorization),
                                            loadAccess(http.accessFile))]
    /\ UNCHANGED <<WS_TOKEN, ALLOWED_ORIGIN, activeWsCount, conn, sent, turns, nMsgs, nUp, acc>>

NextDocs == Index \/ Asset \/ Document

SpecDocs == InitDocs /\ [][NextDocs]_vars

---------------------------------------------------------------------------
\* Reading the log of a connection

IsTerminal(ev) == ev.type \in {"done", "error"}

\* the events sent for turn k of connection c, in the order sent
TurnEvents(c, k) ==
    LET OfTurn(f) == f.turn = k
        fs == SelectSeq(sent[c], OfTurn)
    IN  [i \in 1..Len(fs) |-> fs[i].ev]

\* how many events of evs have one of the types ts
CountOf(evs, ts) == Cardinality({i \in 1..Len(evs) : evs[i].type \in ts})

\* the session_id of the last done among frames, Undefined when there is none
LastDone(frames) ==
    LET ds == {i \in 1..Len(frames) : frames[i].ev.type = "done"}
    IN  IF ds = {} THEN Undefined
        ELSE frames[CHOOSE i \in ds : \A j \in ds : j <= i].ev.session_id

TurnIds(c) == 1..Len(turns[c])

\* the request passes the origin check of handler()
OriginPasses(req) ==
    ~(Truthy(ALLOWED_ORIGIN) /\ Truthy(req.origin) /\ req.origin # ALLOWED_ORIGIN)

\* msg is {"type":"auth","token":t} with t the configured secret
IsSecretAuth(msg) ==
    /\ msg.json = "object"
    /\ msg.type = "auth"
    /\ msg.token.typeof = "string"
    /\ msg.token.str = WS_TOKEN

---------------------------------------------------------------------------
C2_Original ==
    \A req \in WsRequests :
        /\ NumOpen >= 1 => wsStatus(req, activeWsCount) = 429
        /\ (NumOpen = 0 /\ TruthyStr(WS_TOKEN) /\ OriginPasses(req) /\ req.handshake)
               => wsStatus(req, activeWsCount) = 101

\* C2 amended: while a connection is open every request for /ws is refused,
\* with 403 when it fails the origin check and with 429 otherwise; with none
\* open a handshake with the secret configured that passes the origin check is
\* admitted.
C2_RefusedWhileOpen ==
    \A req \in WsRequests :
        /\ NumOpen >= 1 =>
               wsStatus(req, activeWsCount) = IF OriginPasses(req) THEN 429 ELSE 403
        /\ (NumOpen = 0 /\ TruthyStr(WS_TOKEN) /\ OriginPasses(req) /\ req.handshake)
               => wsStatus(req, activeWsCount) = 101

\* a second connection was admitted after the first one had closed
C2_Witness ==
    /\ conn[1].st = "closed"
    /\ conn[2].st = "open"
    /\ activeWsCount = 1
    /\ ALLOWED_ORIGIN # Undefined

\* C3: a first message that is an auth request with the secret sets
\* authenticated and sends one auth-ok; authenticated never goes back to
\* false and no connection is ever sent a second auth-ok.
C3_AuthOnce ==
    [][\A c \in ConnIds :
          /\ conn[c].authenticated => conn'[c].authenticated
          /\ CountOf([i \in 1..Len(sent'[c]) |-> sent'[c][i].ev], {"auth-ok"}) <= 1
          /\ \A msg \in {m \in Messages : IsSecretAuth(m)} :
                (conn[c].nrecv = 0 /\ Message(c, msg))
                    => /\ ~conn[c].authenticated
                       /\ conn'[c].authenticated
                       /\ sent'[c] = <<[turn |-> 0, live |-> TRUE, ev |-> AuthOk]>>
      ]_vars

\* an authenticated connection has received an auth-shaped message after its
\* handshake and holds a single auth-ok
C3_Witness ==
    \E c \in ConnIds :
        /\ conn[c].authenticated
        /\ conn[c].nrecv >= 2
        /\ CountOf([i \in 1..Len(sent[c]) |-> sent[c][i].ev], {"auth-ok"}) = 1

\* C4: on an unauthenticated connection a message that is not an auth request
\* with the secret closes it with 4401, leaves authenticated false and sends
\* nothing; nothing is sent on it afterwards.
\* (Violated: checkToken compares UTF-8 bytes, and Buffer.from encodes an
\* unpaired surrogate as U+FFFD.)
C4_BadAuthCloses ==
    [][\A c \in ConnIds :
          /\ conn[c].closeCode = 4401 => sent'[c] = sent[c]
          /\ \A msg \in Messages :
                (Message(c, msg) /\ ~conn[c].authenticated /\ ~IsSecretAuth(msg))
                    => /\ conn'[c].closeCode = 4401
                       /\ conn'[c].st # "open"
                       /\ ~conn'[c].authenticated
                       /\ sent'[c] = sent[c]
      ]_vars

\* C5: chat() is never started for a message that arrived while authenticated
\* was false.
C5_NoChatBeforeAuth ==
    \A c \in ConnIds : \A k \in TurnIds(c) : turns[c][k].authAtCall

\* a prompt has been relayed on a connection
C5_Witness == \E c \in ConnIds : Len(turns[c]) >= 1 /\ conn[c].nrecv >= 2

\* C6: every turn sends exactly one terminal event (done or error), and
\* nothing of the turn follows it.
\* (Violated: the relay forwards whatever the upstream yields.)
C6_OneTerminalLast ==
    \A c \in ConnIds : \A k \in TurnIds(c) :
        LET evs == TurnEvents(c, k)
            terms == {i \in 1..Len(evs) : IsTerminal(evs[i])}
        IN  /\ Cardinality(terms) <= 1
            /\ \A i \in terms : i = Len(evs)
            /\ turns[c][k].st # "running" => Cardinality(terms) = 1

\* C7: every prompt is submitted with resume set to the session_id of the
\* last done forwarded on its connection before it arrived, and without resume
\* when there was none.
C7_ResumeIsLastDone ==
    \A c \in ConnIds : \A k \in TurnIds(c) :
        turns[c][k].resume = LastDone(SubSeq(sent[c], 1, turns[c][k].at))

\* a second prompt was submitted with the session id of the first turn's done
C7_Witness ==
    \E c \in ConnIds :
        /\ Len(turns[c]) >= 2
        /\ turns[c][1].resume = Undefined
        /\ turns[c][2].resume = "s2"

\* C8: a turn whose upstream fails before any terminal event (an exception or
\* a non-success result) sends exactly one error, with recoverable false, and
\* no done.
\* (Violated for the reason C6 is: what follows the failure is forwarded too.)
C8_OneErrorNoDone ==
    \A c \in ConnIds : \A k \in TurnIds(c) :
        LET evs == TurnEvents(c, k)
            terms == {i \in 1..Len(evs) : IsTerminal(evs[i])}
            first == CHOOSE i \in terms : \A j \in terms : i <= j
        IN  (terms # {} /\ evs[first].type = "error")
                => /\ CountOf(evs, {"error"}) = 1
                   /\ CountOf(evs, {"done"}) = 0
                   /\ \A i \in terms : ~evs[i].recoverable

\* C9: for a slug that is no key of the access mapping canAccess returns true
\* for every token, null included.
\* (Violated: "slug in rules" also finds the names every object inherits.)
C9_UnlistedIsPublic ==
    (acc.pc = "decided" /\ acc.slug \notin DOMAIN acc.rules) => acc.result = "true"

\* C10: for a slug that is a key of the access mapping canAccess returns true
\* exactly when the token is not null and equals an element of the slug's
\* list, and false otherwise.
C10_ListedNeedsExactToken ==
    (acc.pc = "decided" /\ acc.slug \in DOMAIN acc.rules)
        => /\ acc.result \in {"true", "false"}
           /\ acc.result = "true" <=>
                  /\ acc.token # NullStr
                  /\ \E i \in 1..Len(acc.rules[acc.slug]) :
                         acc.rules[acc.slug][i] = acc.token

\* a proper prefix of a listed token was refused
C10_Witness ==
    /\ acc.pc = "decided"
    /\ acc.slug = "paper"
    /\ acc.token = TokA
    /\ "paper" \in DOMAIN acc.rules
    /\ acc.rules["paper"] = <<TokAB>>
    /\ acc.result = "false"

---------------------------------------------------------------------------
\* Reading a request for a document route

\* the token and the rules of the request
ReqToken == getToken(http.q, http.authorization)
ReqRules == loadAccess(http.accessFile)

\* the request is for an asset, for a document page
AssetReq == http.name # "" /\ IsAssetRequest(CodeUnits(http.name))
DocumentReq == http.name # "" /\ ~IsAssetRequest(CodeUnits(http.name))

\* the name is free of "/" and of null characters
WellFormed(name) == \A i \in 1..Len(CodeUnits(name)) : CodeUnits(name)[i] \notin {47, 0}

\* the file of docs/ the request names
Candidate == IF AssetReq THEN CodeUnits(http.name) ELSE CodeUnits(http.name) \o Md

\* path lies below root: root, a "/", and at least one more code unit
StrictDescendant(path, root) ==
    /\ root # Enoent
    /\ Len(path) > Len(root) + 1
    /\ \A i \in 1..Len(root) : path[i] = root[i]
    /\ path[Len(root) + 1] = 47

\* the candidate of the request resolves to a regular file below the resolved
\* docs root
ResolvesInside(fs, file) ==
    /\ \E i \in 1..Len(fs.entries) : fs.entries[i].name = file
    /\ StrictDescendant(EntryOf(fs, file).real, fs.docsReal)
    /\ EntryOf(fs, file).kind = "file"

\* the slug is listed in the rules and the token is missing or not in its list
Denied(name, token, rules) ==
    /\ name \in DOMAIN rules
    /\ token = NullStr \/ \A i \in 1..Len(rules[name]) : rules[name][i] # token

---------------------------------------------------------------------------
C12_DocumentStatus ==
    (http.pc = "done" /\ DocumentReq /\ WellFormed(http.name))
        => IF Denied(http.name, ReqToken, ReqRules)
           THEN http.resp.status = 401 /\ http.resp.body = ""
           ELSE IF ~ResolvesInside(http.fs, Candidate)
           THEN http.resp.status = 404 /\ http.resp.body = ""
           ELSE /\ http.resp.status = 200
                /\ http.resp.body = EntryOf(http.fs, Candidate).data

\* C13: an asset request whose name is listed in the rules and whose token is
\* missing or not in the list is answered 401 and gets no bytes.
\* (Violated: the asset branch never calls canAccess.)
C13_AssetsGated ==
    (http.pc = "done" /\ AssetReq /\ Denied(http.name, ReqToken, ReqRules))
        => http.resp.status = 401 /\ http.resp.body = ""

\* C14: the index page lists a slug only if canAccess holds for it with the
\* token of the request, so no listed slug whose list lacks the token, and it
\* lists every slug that is not in the rules and whose file resolves to a
\* regular file below the docs root.
\* (Violated: canAccess finds inherited names listed, see C9.)
C14_ListingFiltered ==
    (http.pc = "done" /\ http.name = "")
        => /\ http.resp.status = 200
           /\ \A i \in 1..Len(http.resp.list) :
                 /\ canAccess(http.resp.list[i], ReqToken, ReqRules) = "true"
                 /\ ~Denied(http.resp.list[i], ReqToken, ReqRules)
           /\ \A name \in Names :
                 (/\ name \notin DOMAIN ReqRules
                  /\ WellFormed(name)
                  /\ ResolvesInside(http.fs, CodeUnits(name) \o Md))
                     => \E i \in 1..Len(http.resp.list) : http.resp.list[i] = name

---------------------------------------------------------------------------
\* Reading a turn against its upstream

\* the tool-use events of the invocations among blocks, first to last
RECURSIVE ToolUsesOf(_)
ToolUsesOf(blocks) ==
    IF blocks = <<>> THEN <<>>
    ELSE (IF Head(blocks).type = "tool_use" THEN <<ToolUseEvent(Head(blocks).name)>> ELSE <<>>)
         \o ToolUsesOf(Tail(blocks))

\* what one upstream message is to yield on the wire
EventsOf(msg) ==
    CASE msg.type = "stream_event" /\ msg.etype = "content_block_delta"
                                   /\ msg.dtype = "text_delta"
             -> <<TextDelta(msg.text)>>
      [] msg.type = "assistant" -> ToolUsesOf(msg.content)
      [] msg.type = "result" /\ msg.subtype = "success" -> <<Done(msg.session_id)>>
      [] msg.type = "result" /\ msg.subtype # "success"
             -> <<ErrorEvent(IF msg.errors = <<>> THEN msg.subtype ELSE msg.errors[1], FALSE)>>
      [] OTHER -> <<>>

\* what a sequence of upstream messages is to yield, in order
RECURSIVE EventsOfAll(_)
EventsOfAll(msgs) ==
    IF msgs = <<>> THEN <<>> ELSE EventsOf(Head(msgs)) \o EventsOfAll(Tail(msgs))

\* the turns of connection c that are still iterating their upstream
Running(c) == {k \in TurnIds(c) : turns[c][k].st = "running"}

\* the request declares an Origin that is not the configured one
OriginDiffers(req) ==
    ALLOWED_ORIGIN # Undefined /\ req.origin # Undefined /\ req.origin # ALLOWED_ORIGIN

---------------------------------------------------------------------------
\* C15: a handshake for /ws is answered by the first failing check of: no
\* secret configured, 503; an allow-list configured and the Origin of the
\* request different from it, 403; activeWsCount at or above the cap, 429;
\* otherwise it is admitted.
\* (Violated: an Origin header with an empty value is falsy and skips the
\* comparison.)
C15_AdmissionOrder ==
    \A req \in WsRequests :
        req.handshake =>
            wsStatus(req, activeWsCount) =
                IF ~TruthyStr(WS_TOKEN) THEN 503
                ELSE IF OriginDiffers(req) THEN 403
                ELSE IF activeWsCount >= WsCap THEN 429
                ELSE 101

\* C16: activeWsCount is the number of connections whose open callback has
\* run and whose close callback has not, and it is never negative.
C16_CountIsOpen ==
    /\ activeWsCount = Cardinality({c \in ConnIds : conn[c].st \in {"open", "closing"}})
    /\ activeWsCount >= 0

\* one connection was closed by the server with 4401, another went away with
\* a turn in flight, and the counter is back at zero
C16_Witness ==
    /\ activeWsCount = 0
    /\ \E c \in ConnIds : conn[c].st = "closed" /\ conn[c].closeCode = 4401
    /\ \E c \in ConnIds : conn[c].st = "closed" /\ Running(c) # {}

\* C17: at every moment the events sent for a turn are what the upstream
\* messages consumed so far yield, message by message in upstream order: one
\* text-delta for a text delta, one tool-use per invocation of an assistant
\* message in the order listed, done or error for a result, nothing for every
\* other message; the error of a thrown exception comes after them.
C17_EventsAreProjection ==
    \A c \in ConnIds : \A k \in TurnIds(c) :
        TurnEvents(c, k) =
            EventsOfAll(turns[c][k].ups)
                \o (IF turns[c][k].st = "caught"
                    THEN <<ErrorEvent(ThrownMessage, FALSE)>> ELSE <<>>)

\* a turn has forwarded the two invocations of one assistant message, in
\* order, after a message that yields nothing
C17_Witness ==
    \E c \in ConnIds : \E k \in TurnIds(c) :
        /\ Len(turns[c][k].ups) = 2
        /\ turns[c][k].ups[1].type = "stream_event"
        /\ turns[c][k].ups[1].etype = "message_start"
        /\ TurnEvents(c, k) = <<ToolUseEvent("Bash"), ToolUseEvent("Read")>>

\* C18: the session id of a connection changes only in a step that forwards a
\* done, and is then the session_id of the last done forwarded; a turn whose
\* last terminal event is an error leaves it, when the turn ends, at the
\* value it had when the turn began.
\* (Violated: a done followed by a failure in the same turn, see C6.)
C18_HandleOnlyOnDone ==
    [][\A c \in ConnIds :
          /\ conn'[c].sessionId # conn[c].sessionId
                => /\ Len(sent'[c]) > Len(sent[c])
                   /\ LastDone(SubSeq(sent'[c], Len(sent[c]) + 1, Len(sent'[c])))
                          = conn'[c].sessionId
          /\ \A k \in Running(c) :
                LET evs == [i \in 1..Len(sent'[c]) |-> sent'[c][i]]
                    OfTurn(f) == f.turn = k /\ IsTerminal(f.ev)
                    terms == SelectSeq(evs, OfTurn)
                IN  (/\ turns'[c][k].st # "running"
                     /\ terms # <<>>
                     /\ terms[Len(terms)].ev.type = "error")
                        => conn'[c].sessionId = turns[c][k].resume
      ]_vars

\* C19: once a connection has closed nothing more is sent on it and no turn
\* of it takes another message from its upstream.
\* (Violated: the relay loop is not told of the close.)
C19_NothingAfterClose ==
    [][\A c \in ConnIds :
          conn[c].st \in {"closing", "closed"}
              => /\ sent'[c] = sent[c]
                 /\ \A k \in TurnIds(c) : turns'[c][k].ups = turns[c][k].ups
      ]_vars

\* C20: no connection has two turns iterating their upstreams at once.
\* (Violated: every prompt message calls chat() at once.)
C20_OneTurnInFlight ==
    \A c \in ConnIds : Cardinality(Running(c)) <= 1

---------------------------------------------------------------------------
\* Reading the index page

\* the entry of docs/ behind a slug of the index page, and its place in
\* readdir's order
DocOf(fs, slug) == EntryOf(fs, CodeUnits(slug) \o Md)
PlaceOf(fs, slug) ==
    CHOOSE i \in 1..Len(fs.entries) : fs.entries[i].name = CodeUnits(slug) \o Md

\* something happened on connection c in this step: a message was delivered
\* to it, one of its turns took a message from its upstream, ended or threw,
\* or its close callback ran
StepOn(c) ==
    \/ conn'[c].nrecv # conn[c].nrecv
    \/ turns'[c] # turns[c]
    \/ conn[c].st # "closed" /\ conn'[c].st = "closed"

---------------------------------------------------------------------------
\* C21: a document or asset request whose name holds a "/" or a null
\* character is answered 404, and the handler has made no file system call
\* for it.
\* (Violated: loadAccess reads .access.json before the name is looked at.)
C21_MalformedUntouched ==
    (http.pc = "done" /\ http.name # "" /\ ~WellFormed(http.name))
        => http.resp.status = 404 /\ http.resp.ops = <<>>

\* C22: when .access.json cannot be read or parsed the rules of the request
\* are the empty mapping, every slug passes canAccess, and the request is
\* answered neither 401 nor with an unhandled fault.
\* (Violated: canAccess finds inherited names listed in the empty mapping
\* too, see C9.)
C22_FailOpen ==
    (http.pc = "done" /\ http.accessFile.kind # "object")
        => /\ ReqRules = EmptyRules
           /\ \A name \in Names : canAccess(name, ReqToken, ReqRules) = "true"
           /\ http.resp.status \notin {401, 500}

\* C23: a step that handles a message, an upstream event or a close on one
\* connection leaves authenticated and the session id of every other
\* connection as they were and sends nothing on it.
C23_Isolation ==
    [][\A c \in ConnIds : StepOn(c) =>
          \A d \in ConnIds \ {c} :
              /\ conn'[d].authenticated = conn[d].authenticated
              /\ conn'[d].sessionId = conn[d].sessionId
              /\ sent'[d] = sent[d]
      ]_vars

\* a turn of one connection has forwarded a done while another connection is
\* authenticated and has no session id
C23_Witness ==
    \E c \in ConnIds : \E d \in ConnIds \ {c} :
        /\ conn[c].sessionId # Undefined
        /\ Len(turns[c]) >= 1
        /\ conn[d].authenticated
        /\ conn[d].st = "open"
        /\ conn[d].sessionId = Undefined

\* C24: on the index page every entry is at least as new as the one after
\* it, and entries of equal mtime stand in readdir's order, so that the page
\* is the same whenever docs/ is.
C24_NewestFirst ==
    (http.pc = "done" /\ http.name = "" /\ http.resp.status = 200)
        => \A i \in 1..(Len(http.resp.list) - 1) :
              LET a == http.resp.list[i]
                  b == http.resp.list[i + 1]
              IN  \/ DocOf(http.fs, a).mtime > DocOf(http.fs, b).mtime
                  \/ /\ DocOf(http.fs, a).mtime = DocOf(http.fs, b).mtime
                     /\ PlaceOf(http.fs, a) < PlaceOf(http.fs, b)

\* an index page with two entries of equal mtime and an older one after them
C24_Witness ==
    /\ http.pc = "done"
    /\ http.name = ""
    /\ http.resp.list = <<"paper", "memo", "notes">>

\* C25: with an allow-list configured no handshake that declares another
\* Origin is admitted, and a handshake without an Origin header is admitted
\* whenever the secret is configured and activeWsCount is below the cap.
\* (Violated: an Origin header with an empty value is falsy, see C15.)
C25_OriginAllowList ==
    \A req \in WsRequests :
        req.handshake =>
            /\ OriginDiffers(req) => wsStatus(req, activeWsCount) # 101
            /\ (req.origin = Undefined /\ TruthyStr(WS_TOKEN) /\ activeWsCount < WsCap)
                   => wsStatus(req, activeWsCount) = 101

====
